---- MODULE Spec2Model ----
(***************************************************************************)
(* Model of the Cypress TTSP4 SPI register transport                       *)
(* (drivers/input/touchscreen/cyttsp4/cyttsp4_spi.c).                      *)
(*                                                                         *)
(* Threads call the adapter operations cyttsp4_spi_read and                *)
(* cyttsp4_spi_write on one device.  Each call bumps the runtime-PM usage  *)
(* count, takes the per-device mutex, runs the block function (one or two  *)
(* cyttsp4_spi_xfer calls, each at most one spi_sync exchange), releases   *)
(* the mutex and drops the usage count.  The peripheral's answer to an     *)
(* exchange (transport status, response sync byte) is nondeterministic.    *)
(***************************************************************************)
EXTENDS Integers, Sequences, FiniteSets, TLC

(* ---------------------------------------------------------------- bounds *)
NThreads == 2          \* threads calling into the adapter concurrently
MaxSmallLen == 2       \* small payload lengths 0..MaxSmallLen
BoundarySpan == 3      \* payload lengths DATA_SIZE-BoundarySpan..DATA_SIZE

(* ----------------------------------------------------- program constants *)
CY_SPI_WR_OP == 0
CY_SPI_RD_OP == 1
CY_SPI_A8_BIT == 2
CY_SPI_WR_HEADER_BYTES == 2
CY_SPI_RD_HEADER_BYTES == 1
CY_SPI_SYNC_BYTE == 0
CY_SPI_SYNC_ACK == 98
CY_SPI_DATA_SIZE == 3 * 256
CY_SPI_MAX_REG == 512
CY_SPI_MAX_HEADER_BYTES ==
    IF CY_SPI_WR_HEADER_BYTES > CY_SPI_RD_HEADER_BYTES
    THEN CY_SPI_WR_HEADER_BYTES ELSE CY_SPI_RD_HEADER_BYTES
EINVAL == 22
EIO == 5
ETIMEDOUT == 110

NULL == "NULL"
NoOwner == 0
Threads == 1..NThreads

\* conversion of an argument to the u8 parameter type
U8(x) == x % 256

\* memset(buf, 0, CY_SPI_MAX_HEADER_BYTES)
ZeroHeader == [i \in 1..CY_SPI_MAX_HEADER_BYTES |-> 0]

VARIABLES
    lock,          \* ts->lock: the owning thread, or NoOwner
    usage_count,   \* dev->power.usage_count
    pc,            \* per thread: position in cyttsp4_spi_read / _write
    call,          \* per thread: the arguments of the call in progress
    phase,         \* per thread: which cyttsp4_spi_xfer of the block function
    msg,           \* per thread: the spi_message handed to spi_sync
    wr_hdr_buf,    \* per thread: xfer's transmit header buffer
    rd_hdr_buf,    \* per thread: xfer's response header buffer
    rc,            \* per thread: the rc local of the function in progress
    ret,           \* per thread: value returned by the last finished call
    log            \* per thread: the exchanges spi_sync performed in the call

vars == <<lock, usage_count, pc, call, phase, msg, wr_hdr_buf, rd_hdr_buf,
          rc, ret, log>>

NoCall == [fn |-> "none", reg |-> 0, addr |-> 0, buf |-> NULL,
           data |-> <<>>, size |-> 0]

(* ------------------------------------------------------ cyttsp4_spi_xfer *)

\* header bytes 0 and 1 of a write frame
WrHeader(reg) ==
    << IF reg > 255 THEN CY_SPI_WR_OP + CY_SPI_A8_BIT ELSE CY_SPI_WR_OP,
       reg % 256 >>

\* header of a read frame: op code only, the rest stays zeroed
RdHeader == [ZeroHeader EXCEPT ![1] = CY_SPI_RD_OP]

\* xfer[0]: header transmitted while the response header is captured
HeaderXfer(len) == [tx_buf |-> "wr_hdr_buf", rx_buf |-> "rd_hdr_buf", len |-> len]

\* (mutant) the payload segment counts the header bytes too
WrDataXfer_CountsHeader(buf, length) ==
    [tx_buf |-> buf, rx_buf |-> NULL, len |-> length + CY_SPI_WR_HEADER_BYTES]

\* xfer[1] of a write: the caller's buffer, transmit only
WrDataXfer(buf, length) == [tx_buf |-> buf, rx_buf |-> NULL, len |-> length]

\* (mutant) size check with >= for >
WrTooLong_OffByOne(length) == length + CY_SPI_WR_HEADER_BYTES >= CY_SPI_DATA_SIZE

\* the size checks of the two op codes
WrTooLong(length) == length + CY_SPI_WR_HEADER_BYTES > CY_SPI_DATA_SIZE
RdTooLong(length) == length + CY_SPI_RD_HEADER_BYTES > CY_SPI_DATA_SIZE

\* The first switch of cyttsp4_spi_xfer: argument checks and message build.
\* ok = FALSE is the goto cyttsp4_spi_xfer_exit with rc = -EINVAL.
XferPrepare(op, reg, buf, length) ==
    CASE op = CY_SPI_WR_OP ->
           IF WrTooLong(length)
           THEN [ok |-> FALSE, hdr |-> ZeroHeader, msg |-> <<>>]
           ELSE [ok |-> TRUE, hdr |-> WrHeader(reg),
                 msg |-> <<HeaderXfer(CY_SPI_WR_HEADER_BYTES)>> \o
                         (IF buf # NULL
                          THEN <<WrDataXfer(buf, length)>>
                          ELSE <<>>)]
      [] op = CY_SPI_RD_OP ->
           IF buf = NULL
           THEN [ok |-> FALSE, hdr |-> ZeroHeader, msg |-> <<>>]
           ELSE IF RdTooLong(length)
           THEN [ok |-> FALSE, hdr |-> ZeroHeader, msg |-> <<>>]
           ELSE [ok |-> TRUE, hdr |-> RdHeader,
                 msg |-> <<HeaderXfer(CY_SPI_RD_HEADER_BYTES),
                           [tx_buf |-> NULL, rx_buf |-> buf, len |-> length]>>]
      [] OTHER -> [ok |-> FALSE, hdr |-> ZeroHeader, msg |-> <<>>]

\* (mutant) return the spi_sync error instead of falling through to the ACK check
XferResult_ReturnSyncError(sync_rc, rd_hdr) ==
    IF sync_rc < 0 THEN sync_rc
    ELSE IF rd_hdr[CY_SPI_SYNC_BYTE + 1] # CY_SPI_SYNC_ACK THEN 1 ELSE 0

\* After spi_sync returned sync_rc: the error is only logged, then the ACK
\* check on the response header decides rc.
XferResult(sync_rc, rd_hdr) ==
    IF rd_hdr[CY_SPI_SYNC_BYTE + 1] # CY_SPI_SYNC_ACK THEN 1 ELSE 0

(* ------------------------------------------------------- block functions *)

\* (mutant) the address phase of a read is given the caller's buffer
XferArgs_AddressPhaseWithBuffer(c, ph) ==
    IF c.fn = "read"
    THEN IF ph = 1
         THEN [op |-> CY_SPI_WR_OP, reg |-> U8(c.addr), buf |-> c.buf,
               length |-> c.size]
         ELSE [op |-> CY_SPI_RD_OP, reg |-> U8(c.addr), buf |-> c.buf,
               length |-> c.size]
    ELSE [op |-> CY_SPI_WR_OP, reg |-> U8(c.addr), buf |-> c.buf, length |-> c.size]

\* arguments of the cyttsp4_spi_xfer call made in phase ph of call c
XferArgs(c, ph) ==
    IF c.fn = "read"
    THEN IF ph = 1
         THEN [op |-> CY_SPI_WR_OP, reg |-> U8(c.addr), buf |-> NULL, length |-> 0]
         ELSE [op |-> CY_SPI_RD_OP, reg |-> U8(c.addr), buf |-> c.buf,
               length |-> c.size]
    ELSE [op |-> CY_SPI_WR_OP, reg |-> U8(c.addr), buf |-> c.buf, length |-> c.size]

\* (mutant) the read returns after the address phase
cyttsp4_spi_read_block_data_SkipsDataPhase(ph, r) ==
    [pc |-> "mutex_unlock", phase |-> ph,
     rc |-> IF r < 0 THEN r ELSE IF r > 0 THEN -EIO ELSE r]

\* (mutant) the ack-mismatch signal of the data phase is returned as it is
cyttsp4_spi_read_block_data_NoConversion(ph, r) ==
    IF ph = 1
    THEN IF r < 0
         THEN [pc |-> "mutex_unlock", phase |-> 1, rc |-> r]
         ELSE [pc |-> "xfer", phase |-> 2, rc |-> r]
    ELSE [pc |-> "mutex_unlock", phase |-> ph, rc |-> r]

\* What the block function does with the rc of the xfer of phase ph:
\* pc = "xfer" is a further cyttsp4_spi_xfer call, "mutex_unlock" its return.
cyttsp4_spi_read_block_data(ph, r) ==
    IF ph = 1
    THEN IF r < 0
         THEN [pc |-> "mutex_unlock", phase |-> 1, rc |-> r]
         ELSE [pc |-> "xfer", phase |-> 2, rc |-> r]
    ELSE [pc |-> "mutex_unlock", phase |-> ph,
          rc |-> IF r < 0 THEN r ELSE IF r > 0 THEN -EIO ELSE r]

\* (mutant) the write is issued again on an ack mismatch
cyttsp4_spi_write_block_data_Retry(ph, r) ==
    IF r > 0
    THEN [pc |-> "xfer", phase |-> ph, rc |-> r]
    ELSE [pc |-> "mutex_unlock", phase |-> ph, rc |-> r]

cyttsp4_spi_write_block_data(ph, r) ==
    [pc |-> "mutex_unlock", phase |-> ph,
     rc |-> IF r < 0 THEN r ELSE IF r > 0 THEN -EIO ELSE r]

\* (mutant) the response header buffer keeps what the last exchange left
RdHeaderAtEntry_NotCleared(t) == rd_hdr_buf[t]

\* rd_hdr_buf of thread t's cyttsp4_spi_xfer after the memset at its entry
RdHeaderAtEntry(t) == ZeroHeader

(* ---------------------------------------------------- runtime PM and mutex *)
\* (mutant) an error path that returns without pm_runtime_put_noidle
UsageAfterPut_SkippedOnError(t) ==
    IF rc[t] < 0 THEN usage_count ELSE usage_count - 1

\* dev->power.usage_count after pm_runtime_put_noidle by thread t
UsageAfterPut(t) == usage_count - 1

\* (mutant) a lock that never blocks
MutexAvailable_NoExclusion(t) == TRUE

\* mutex_lock(&ts->lock) can return
MutexAvailable(t) == lock = NoOwner

\* (mutant) an error path that returns without mutex_unlock
MutexReleased_SkippedOnError(t) == IF rc[t] < 0 THEN lock ELSE NoOwner

\* owner of ts->lock after mutex_unlock by thread t
MutexReleased(t) == NoOwner

(* ------------------------------------------------------------------ Init *)
Init ==
    /\ lock = NoOwner
    /\ usage_count = 0
    /\ pc = [t \in Threads |-> "idle"]
    /\ call = [t \in Threads |-> NoCall]
    /\ phase = [t \in Threads |-> 0]
    /\ msg = [t \in Threads |-> <<>>]
    /\ wr_hdr_buf = [t \in Threads |-> ZeroHeader]
    /\ rd_hdr_buf = [t \in Threads |-> ZeroHeader]
    /\ rc = [t \in Threads |-> 0]
    /\ ret = [t \in Threads |-> 0]
    /\ log = [t \in Threads |-> <<>>]

(* --------------------------------------------------------------- actions *)

\* cyttsp4_spi_read / cyttsp4_spi_write entered with register address a:
\* the address is converted to u8, then pm_runtime_get_noresume.
Enter(t, fn, a, buf, data, size) ==
    /\ pc[t] \in {"idle", "done"}
    /\ call' = [call EXCEPT ![t] = [fn |-> fn, reg |-> a, addr |-> U8(a),
                                    buf |-> buf, data |-> data, size |-> size]]
    /\ usage_count' = usage_count + 1
    /\ pc' = [pc EXCEPT ![t] = "mutex_lock"]
    /\ phase' = [phase EXCEPT ![t] = 0]
    /\ msg' = [msg EXCEPT ![t] = <<>>]
    /\ wr_hdr_buf' = [wr_hdr_buf EXCEPT ![t] = ZeroHeader]
    /\ rd_hdr_buf' = [rd_hdr_buf EXCEPT ![t] = ZeroHeader]
    /\ rc' = [rc EXCEPT ![t] = 0]
    /\ ret' = [ret EXCEPT ![t] = 0]
    /\ log' = [log EXCEPT ![t] = <<>>]
    /\ UNCHANGED lock

\* mutex_lock(&ts->lock), then the block function starts its first phase
MutexLock(t) ==
    /\ pc[t] = "mutex_lock"
    /\ MutexAvailable(t)
    /\ lock' = t
    /\ phase' = [phase EXCEPT ![t] = 1]
    /\ pc' = [pc EXCEPT ![t] = "xfer"]
    /\ UNCHANGED <<usage_count, call, msg, wr_hdr_buf, rd_hdr_buf, rc, ret, log>>

\* cyttsp4_spi_xfer from entry to the spi_sync call, or to its exit with
\* -EINVAL when the first switch rejects the request
XferStart(t) ==
    /\ pc[t] = "xfer"
    /\ LET a == XferArgs(call[t], phase[t])
           p == XferPrepare(a.op, a.reg, a.buf, a.length)
       IN  /\ wr_hdr_buf' = [wr_hdr_buf EXCEPT ![t] = p.hdr]
           /\ rd_hdr_buf' = [rd_hdr_buf EXCEPT ![t] = RdHeaderAtEntry(t)]
           /\ msg' = [msg EXCEPT ![t] = p.msg]
           /\ IF p.ok
              THEN /\ pc' = [pc EXCEPT ![t] = "spi_sync"]
                   /\ rc' = rc
              ELSE /\ pc' = [pc EXCEPT ![t] = "xfer_exit"]
                   /\ rc' = [rc EXCEPT ![t] = -EINVAL]
    /\ UNCHANGED <<lock, usage_count, call, phase, ret, log>>

\* spi_sync returns sync_rc; when the header segment was clocked, the
\* response header holds the peripheral's sync byte, else it stays zeroed.
\* cyttsp4_spi_xfer then runs its ACK check and returns.
SpiSync(t, sync_rc, delivered, sync) ==
    /\ pc[t] = "spi_sync"
    /\ sync_rc = 0 => delivered
    /\ LET rd == IF delivered
                 THEN [rd_hdr_buf[t] EXCEPT ![CY_SPI_SYNC_BYTE + 1] = sync]
                 ELSE rd_hdr_buf[t]
       IN  /\ rd_hdr_buf' = [rd_hdr_buf EXCEPT ![t] = rd]
           /\ rc' = [rc EXCEPT ![t] = XferResult(sync_rc, rd)]
           /\ log' = [log EXCEPT ![t] =
                        Append(@, [hdr |-> SubSeq(wr_hdr_buf[t], 1, msg[t][1].len),
                                   msg |-> msg[t],
                                   sync_rc |-> sync_rc,
                                   delivered |-> delivered,
                                   sync |-> rd[CY_SPI_SYNC_BYTE + 1]])]
    /\ pc' = [pc EXCEPT ![t] = "xfer_exit"]
    /\ UNCHANGED <<lock, usage_count, call, phase, msg, wr_hdr_buf, ret>>

\* the block function takes the rc of the xfer that just returned
BlockStep(t) ==
    /\ pc[t] = "xfer_exit"
    /\ LET n == IF call[t].fn = "read"
                THEN cyttsp4_spi_read_block_data(phase[t], rc[t])
                ELSE cyttsp4_spi_write_block_data(phase[t], rc[t])
       IN  /\ pc' = [pc EXCEPT ![t] = n.pc]
           /\ phase' = [phase EXCEPT ![t] = n.phase]
           /\ rc' = [rc EXCEPT ![t] = n.rc]
    /\ UNCHANGED <<lock, usage_count, call, msg, wr_hdr_buf, rd_hdr_buf, ret, log>>

\* mutex_unlock(&ts->lock)
MutexUnlock(t) ==
    /\ pc[t] = "mutex_unlock"
    /\ lock' = MutexReleased(t)
    /\ pc' = [pc EXCEPT ![t] = "pm_put"]
    /\ UNCHANGED <<usage_count, call, phase, msg, wr_hdr_buf, rd_hdr_buf, rc, ret, log>>

\* pm_runtime_put_noidle(adap->dev); return rc
Return(t) ==
    /\ pc[t] = "pm_put"
    /\ usage_count' = UsageAfterPut(t)
    /\ ret' = [ret EXCEPT ![t] = rc[t]]
    /\ pc' = [pc EXCEPT ![t] = "done"]
    /\ UNCHANGED <<lock, call, phase, msg, wr_hdr_buf, rd_hdr_buf, rc, log>>

(* ---------------------------------------------------------------- inputs *)
Fns == {"read", "write"}

\* register addresses around the 8-bit and 9-bit limits
RegAddrs == {0, 16, 255, 256, CY_SPI_MAX_REG - 1, CY_SPI_MAX_REG, 600}
SmallLens == 0..MaxSmallLen
BoundaryLens == (CY_SPI_DATA_SIZE - BoundarySpan)..CY_SPI_DATA_SIZE
Lengths == SmallLens \cup BoundaryLens \cup {4}
Patterns == {<<170, 187>>, <<90>>}
SyncBytes == {CY_SPI_SYNC_ACK, 0, 255}
SyncRcs == {0, -EIO, -ETIMEDOUT}

\* inputs of the concurrent specification
ConcAddrs == {16}
ConcLens == {2, CY_SPI_DATA_SIZE}
\* answers of spi_sync: <<return value, header delivered, sync byte>>
ConcAnswers == {<<0, TRUE, CY_SPI_SYNC_ACK>>, <<0, TRUE, 0>>,
                <<-ETIMEDOUT, TRUE, CY_SPI_SYNC_ACK>>, <<-ETIMEDOUT, FALSE, 0>>}

Step(t) ==
    \/ MutexLock(t)
    \/ XferStart(t)
    \/ BlockStep(t)
    \/ MutexUnlock(t)
    \/ Return(t)

\* any number of threads, small inputs
Next ==
    \E t \in Threads :
        \/ \E fn \in Fns, a \in ConcAddrs, size \in ConcLens :
               Enter(t, fn, a, "buf", IF fn = "write" THEN <<170, 187>> ELSE <<>>, size)
        \/ \E o \in ConcAnswers : SpiSync(t, o[1], o[2], o[3])
        \/ Step(t)

Spec == Init /\ [][Next]_vars

\* one caller, inputs around every limit of the code
SeqNext ==
    \/ \E fn \in Fns, a \in RegAddrs, buf \in {NULL, "buf"}, size \in Lengths :
           \E data \in (IF fn = "write" /\ buf # NULL THEN Patterns ELSE {<<>>}) :
               Enter(1, fn, a, buf, data, size)
    \/ \E r \in SyncRcs, d \in BOOLEAN, s \in SyncBytes : SpiSync(1, r, d, s)
    \/ Step(1)

SeqSpec == Init /\ [][SeqNext]_vars

\* Inputs of the liveness specification: one call per exit path (success,
\* ack mismatch, transport error, invalid argument).
LiveCalls == {<<"write", 2>>, <<"write", CY_SPI_DATA_SIZE>>, <<"read", 2>>}
LiveAnswers == {<<0, TRUE, CY_SPI_SYNC_ACK>>, <<0, TRUE, 0>>, <<-ETIMEDOUT, FALSE, 0>>}

LiveSpiSync(t) == \E o \in LiveAnswers : SpiSync(t, o[1], o[2], o[3])

LiveNext ==
    \E t \in Threads :
        \/ \E c \in LiveCalls :
               Enter(t, c[1], 16, "buf", IF c[1] = "write" THEN <<170, 187>> ELSE <<>>, c[2])
        \/ LiveSpiSync(t)
        \/ Step(t)

\* Scheduling assumed by the liveness claims: every thread inside a call
\* keeps running, every spi_sync returns, and a thread that finds the mutex
\* free again and again eventually gets it.
Fairness ==
    \A t \in Threads :
        /\ SF_vars(MutexLock(t))
        /\ WF_vars(XferStart(t) \/ BlockStep(t) \/ MutexUnlock(t) \/ Return(t))
        /\ WF_vars(LiveSpiSync(t))

FairSpec == Init /\ [][LiveNext]_vars /\ Fairness

(* ================================================================ claims *)
InCall(t) == pc[t] \notin {"idle", "done"}
InFlight == {t \in Threads : pc[t] = "spi_sync"}
Exchanges(t) == Len(log[t])

\* C1: for one device and any number of concurrent callers of
\* cyttsp4_spi_read / cyttsp4_spi_write, at most one spi_sync exchange is
\* in flight at any time, and the thread in it holds the device lock.
C1_OneExchangeInFlight ==
    /\ Cardinality(InFlight) <= 1
    /\ \A t \in InFlight : lock = t

\* C1 witness: an exchange is in flight while another caller waits for the lock
C1_Witness ==
    \E t, u \in Threads : t # u /\ pc[t] = "spi_sync" /\ pc[u] = "mutex_lock"

\* C7: the lock is free whenever no call is in progress (it is released on
\* the success, ack-mismatch, transport-error and invalid-argument paths),
\* every thread waiting for the lock eventually holds it, and every call
\* eventually returns.
C7_LockAlwaysReleased ==
    /\ []((\A t \in Threads : ~InCall(t)) => lock = NoOwner)
    /\ [](\A t \in Threads : pc[t] \in {"pm_put", "done"} => lock # t)
    /\ \A t \in Threads : (pc[t] = "mutex_lock") ~> (lock = t)
    /\ \A t \in Threads : InCall(t) ~> (pc[t] = "done")

\* C7 witness: a call ended on the invalid-argument path and another thread
\* has since taken the lock
C7_Witness ==
    \E t, u \in Threads :
        /\ t # u
        /\ pc[t] = "done" /\ ret[t] = -EINVAL
        /\ lock = u /\ pc[u] = "xfer"

(* --------------------------------------------- outcomes seen by a caller *)
Done(t) == pc[t] = "done"
Success == 0
RetryAdvised == -EIO
InvalidArgument == -EINVAL
BadSync(e) == e.sync # CY_SPI_SYNC_ACK
\* the extended-address bit of header byte b
A8Set(b) == (b \div CY_SPI_A8_BIT) % 2 = 1

\* C2: a response sync byte other than 0x62 in any exchange of a call makes
\* the call report RetryAdvised and not Success, with or without a transport
\* error (calls rejected for their arguments are left aside).
C2_BadSyncReportsRetry ==
    \A t \in Threads :
        (Done(t) /\ ret[t] # InvalidArgument
           /\ \E i \in 1..Exchanges(t) : BadSync(log[t][i]))
            => ret[t] = RetryAdvised

\* C3: when phase 1 of a read ends in an ack mismatch or transport error,
\* phase 2 is never attempted: that call makes exactly one exchange.
C3_Phase1FailureShortCircuits ==
    \A t \in Threads :
        (call[t].fn = "read" /\ Exchanges(t) >= 1 /\ BadSync(log[t][1]))
            => (phase[t] = 1 /\ Exchanges(t) = 1)

\* C4: a call that ends with InvalidArgument has made no exchange.
C4_InvalidArgumentNoExchange ==
    \A t \in Threads :
        (Done(t) /\ ret[t] = InvalidArgument) => Exchanges(t) = 0

\* C5: when the response sync byte of an exchange is 0x62 the phase returns
\* 0 even if spi_sync reported an error, and a write whose single exchange
\* yields 0x62 returns Success.
C5_AckMeansSuccess ==
    \A t \in Threads :
        /\ (pc[t] = "xfer_exit" /\ Exchanges(t) = phase[t]
               /\ ~BadSync(log[t][phase[t]])) => rc[t] = 0
        /\ (Done(t) /\ call[t].fn = "write" /\ Exchanges(t) = 1
               /\ ~BadSync(log[t][1])) => ret[t] = Success

\* C5 witness: a write returned Success although spi_sync reported an error
C5_Witness ==
    \E t \in Threads :
        /\ Done(t) /\ call[t].fn = "write" /\ Exchanges(t) = 1
        /\ log[t][1].sync_rc < 0 /\ log[t][1].sync = CY_SPI_SYNC_ACK
        /\ ret[t] = Success

\* C6: for a register address passed to the entry points, the write header
\* has the extended-address bit clear for 0..255, set for 256..511 (with
\* byte 1 the address mod 256), and an address above 511 is rejected with
\* InvalidArgument.
C6_ExtendedAddressBit ==
    \A t \in Threads :
        /\ (Exchanges(t) >= 1 /\ call[t].reg \in 0..255)
               => ~A8Set(log[t][1].hdr[1])
        /\ (Exchanges(t) >= 1 /\ call[t].reg \in 256..(CY_SPI_MAX_REG - 1))
               => (A8Set(log[t][1].hdr[1])
                   /\ log[t][1].hdr[2] = call[t].reg % 256)
        /\ (Done(t) /\ call[t].reg >= CY_SPI_MAX_REG)
               => ret[t] = InvalidArgument

\* the exchanges of a call as the transport saw them, and as the peripheral
\* answered them
SyncBytesOf(t) == [i \in 1..Exchanges(t) |-> log[t][i].sync]
TransportFailed(t) == \E i \in 1..Exchanges(t) : log[t][i].sync_rc < 0
BadSyncOnly(t) ==
    /\ \E i \in 1..Exchanges(t) : BadSync(log[t][i])
    /\ ~TransportFailed(t)
\* the exchange of the last phase of the block function was made
LastExchange(t) == IF call[t].fn = "read" THEN 2 ELSE 1
SameRequest(t, u) ==
    /\ call[t].fn = call[u].fn /\ call[t].addr = call[u].addr
    /\ call[t].buf = call[u].buf /\ call[t].size = call[u].size

\* C8 as claimed: the returned value tells a call with a wrong sync byte and
\* no transport error apart from a call whose exchange the transport
\* reported failed.
C8_RetryDistinctFromTransportError ==
    \A t, u \in Threads :
        (Done(t) /\ Done(u) /\ BadSyncOnly(t) /\ TransportFailed(u))
            => ret[t] # ret[u]

\* C8 as amended: an ack mismatch of the last exchange is returned as -EIO,
\* a value distinct from Success and InvalidArgument, and the status that
\* spi_sync reported has no part in the returned value: two calls with the
\* same request and the same response sync bytes return the same value.
C8_TransportStatusNotReported ==
    \A t, u \in Threads :
        /\ (Done(t) /\ Exchanges(t) = LastExchange(t)
               /\ BadSync(log[t][LastExchange(t)]))
              => (ret[t] = -EIO /\ ret[t] # Success /\ ret[t] # InvalidArgument)
        /\ (Done(t) /\ Done(u) /\ SameRequest(t, u)
               /\ SyncBytesOf(t) = SyncBytesOf(u))
              => ret[t] = ret[u]

\* C8 witness: the same write answered with a wrong sync byte, once with
\* and once without a transport error, returned -EIO both times
C8_Witness ==
    \E t, u \in Threads :
        /\ Done(t) /\ Done(u) /\ SameRequest(t, u)
        /\ call[t].fn = "write"
        /\ BadSyncOnly(t) /\ TransportFailed(u)
        /\ SyncBytesOf(t) = SyncBytesOf(u)
        /\ ret[t] = -EIO /\ ret[u] = -EIO

\* C9: no internal retry: a write makes at most one exchange (exactly one
\* when the size check passes), a read at most two, whatever the outcomes.
C9_NoInternalRetry ==
    \A t \in Threads :
        /\ call[t].fn = "write" =>
               /\ Exchanges(t) <= 1
               /\ Done(t) => Exchanges(t) =
                     (IF call[t].size + CY_SPI_WR_HEADER_BYTES <= CY_SPI_DATA_SIZE
                      THEN 1 ELSE 0)
        /\ call[t].fn = "read" => Exchanges(t) <= 2

\* C9 witness: a write ended on an ack mismatch with a transport error
\* after a single exchange
C9_Witness ==
    \E t \in Threads :
        /\ Done(t) /\ call[t].fn = "write" /\ ret[t] = RetryAdvised
        /\ Exchanges(t) = 1 /\ log[t][1].sync_rc < 0

\* C10: a read that returns Success made exactly two exchanges: first the
\* 2-byte write header of the address alone, then the 1-byte read header
\* 0x01 followed by one receive-only segment of `size` bytes into the
\* caller's buffer.
C10_ReadSuccessShape ==
    \A t \in Threads :
        (Done(t) /\ call[t].fn = "read" /\ ret[t] = Success) =>
            /\ Exchanges(t) = 2
            /\ Len(log[t][1].msg) = 1
            /\ log[t][1].msg[1].len = 2
            /\ log[t][1].msg[1].tx_buf = "wr_hdr_buf"
            /\ Len(log[t][1].hdr) = 2
            /\ log[t][1].hdr[1] \in {0, 2}
            /\ log[t][1].hdr[2] = call[t].reg % 256
            /\ Len(log[t][2].msg) = 2
            /\ log[t][2].msg[1].len = 1
            /\ log[t][2].msg[1].tx_buf = "wr_hdr_buf"
            /\ log[t][2].hdr = <<1>>
            /\ log[t][2].msg[2] =
                  [tx_buf |-> NULL, rx_buf |-> "buf", len |-> call[t].size]

\* C10 witness: read(0x200, 4) returned Success
C10_Witness ==
    \E t \in Threads :
        /\ Done(t) /\ call[t].fn = "read" /\ ret[t] = Success
        /\ call[t].reg = 512 /\ call[t].size = 4

(* ------------------------------------------------- bytes on the wire *)
\* byte i of the memory at the caller's buffer (its pattern repeats)
BufByte(data, i) == data[((i - 1) % Len(data)) + 1]
\* the first n bytes of the caller's buffer
DataOf(c, n) == [i \in 1..n |-> BufByte(c.data, i)]
\* the bytes a transmit segment of thread t's message clocks out
TxBytes(t, seg) ==
    IF seg.tx_buf = "buf" THEN DataOf(call[t], seg.len) ELSE <<>>

\* C11: a write with data that passes the size check issues one message:
\* the 2-byte header [0x00 or 0x02, addr mod 256], sent while the response
\* header is captured, then one transmit-only segment with exactly the
\* bytes of data in order; with sync byte 0x62 the result is Success
\* (addr 0x10, data [0xAA,0xBB]: segments [0x00,0x10] then [0xAA,0xBB]).
C11_WriteMessageShape ==
    \A t \in Threads :
        (call[t].fn = "write" /\ call[t].buf # NULL) =>
            /\ (Done(t) /\ call[t].size + 2 <= 768) => Exchanges(t) = 1
            /\ Exchanges(t) >= 1 =>
                 LET e == log[t][1] IN
                 /\ Len(e.msg) = 2
                 /\ e.msg[1] = [tx_buf |-> "wr_hdr_buf", rx_buf |-> "rd_hdr_buf",
                                len |-> 2]
                 /\ Len(e.hdr) = 2
                 /\ e.hdr[1] \in {0, 2}
                 /\ e.hdr[2] = call[t].reg % 256
                 /\ e.msg[2].tx_buf = "buf" /\ e.msg[2].rx_buf = NULL
                 /\ e.msg[2].len = call[t].size
                 /\ TxBytes(t, e.msg[2]) = DataOf(call[t], call[t].size)
                 /\ (call[t].reg = 16 /\ call[t].data = <<170, 187>>
                       /\ call[t].size = 2)
                      => (e.hdr = <<0, 16>> /\ TxBytes(t, e.msg[2]) = <<170, 187>>)
                 /\ (Done(t) /\ e.sync = CY_SPI_SYNC_ACK) => ret[t] = Success

\* C11 witness: write(0x10, [0xAA,0xBB]) answered 0x62 returned Success
C11_Witness ==
    \E t \in Threads :
        /\ Done(t) /\ call[t].fn = "write" /\ call[t].reg = 16
        /\ call[t].data = <<170, 187>> /\ call[t].size = 2
        /\ Exchanges(t) = 1 /\ log[t][1].sync = CY_SPI_SYNC_ACK
        /\ ret[t] = Success

\* C12: size acceptance is exact at the boundary: a write is rejected with
\* InvalidArgument iff 2 + size > 768 (766 accepted, 767 rejected), a read
\* with a destination buffer iff 1 + size > 768 (767 accepted, 768 rejected).
C12_SizeBoundaryExact ==
    \A t \in Threads :
        Done(t) =>
            /\ call[t].fn = "write" =>
                  (ret[t] = InvalidArgument <=> 2 + call[t].size > 768)
            /\ (call[t].fn = "read" /\ call[t].buf # NULL) =>
                  (ret[t] = InvalidArgument <=> 1 + call[t].size > 768)

\* C12 witness: a write of 766 bytes was accepted and returned Success
C12_Witness ==
    \E t \in Threads :
        /\ Done(t) /\ call[t].fn = "write" /\ call[t].size = 766
        /\ Exchanges(t) = 1 /\ ret[t] = Success

\* C13: when phase 1 of a read succeeds (sync byte 0x62), phase 2 is always
\* attempted and the call returns the result of phase 2: Success if its
\* sync byte is 0x62, the ack-mismatch failure otherwise, InvalidArgument
\* if phase 2 is rejected before the bus.
C13_ReadResultIsPhase2 ==
    \A t \in Threads :
        (call[t].fn = "read" /\ Exchanges(t) >= 1 /\ ~BadSync(log[t][1])) =>
            /\ pc[t] \in {"mutex_unlock", "pm_put", "done"} => phase[t] = 2
            /\ Done(t) =>
                 /\ Exchanges(t) = 2 =>
                       ret[t] = (IF BadSync(log[t][2]) THEN RetryAdvised ELSE Success)
                 /\ Exchanges(t) = 1 =>
                       /\ ret[t] = InvalidArgument
                       /\ call[t].buf = NULL \/ 1 + call[t].size > 768

\* C13 witness: phase 1 acknowledged, phase 2 answered a wrong sync byte,
\* the read returned the ack-mismatch failure
C13_Witness ==
    \E t \in Threads :
        /\ Done(t) /\ call[t].fn = "read" /\ Exchanges(t) = 2
        /\ ~BadSync(log[t][1]) /\ BadSync(log[t][2])
        /\ ret[t] = RetryAdvised

\* C15: the value returned by cyttsp4_spi_read / cyttsp4_spi_write is always
\* 0, -EIO or -EINVAL: the block functions never return the ack-mismatch
\* signal 1 (a mismatch of their last xfer is returned as -EIO), and the
\* value returned by spi_sync is never the value returned to the caller.
C15_ReturnValues ==
    \A t \in Threads :
        /\ pc[t] \in {"mutex_unlock", "pm_put"} => rc[t] \in {0, -EIO, -EINVAL}
        /\ Done(t) =>
              /\ ret[t] \in {0, -EIO, -EINVAL}
              /\ (Exchanges(t) = LastExchange(t) /\ BadSync(log[t][LastExchange(t)]))
                    => ret[t] = -EIO
              /\ ret[t] = -EIO =>
                    (Exchanges(t) = LastExchange(t) /\ BadSync(log[t][LastExchange(t)]))
              /\ \A i \in 1..Exchanges(t) :
                    log[t][i].sync_rc = -ETIMEDOUT => ret[t] # log[t][i].sync_rc

\* C15 witness: the data phase of a read timed out in the transport with a
\* wrong sync byte, and the read returned -EIO
C15_Witness ==
    \E t \in Threads :
        /\ Done(t) /\ call[t].fn = "read" /\ Exchanges(t) = 2
        /\ log[t][2].sync_rc = -ETIMEDOUT /\ BadSync(log[t][2])
        /\ ret[t] = -EIO

\* thread t's read has made its address-set exchange and its data exchange
\* has not returned yet
BetweenPhases(t) ==
    /\ call[t].fn = "read" /\ Exchanges(t) = 1
    /\ pc[t] \in {"xfer_exit", "xfer", "spi_sync"}

\* C14: the two phases of a read are atomic with respect to other callers:
\* from the address-set exchange to the end of the data exchange the
\* reading thread holds the lock without a break and no other thread has an
\* exchange on the device.
C14_ReadPhasesAtomic ==
    \A t \in Threads :
        BetweenPhases(t) =>
            /\ lock = t
            /\ \A u \in Threads \ {t} :
                  pc[u] \notin {"xfer", "spi_sync", "xfer_exit", "mutex_unlock"}

\* C14 witness: the data exchange of a read is in flight while a writer
\* waits for the lock
C14_Witness ==
    \E t, u \in Threads :
        /\ t # u /\ BetweenPhases(t) /\ pc[t] = "spi_sync" /\ phase[t] = 2
        /\ pc[u] = "mutex_lock" /\ call[u].fn = "write"

\* C16: no acknowledgment carries over: the response header is zeroed
\* before every exchange, a phase whose exchange delivered no response
\* header is an ack mismatch (rc = 1) even after an exchange that returned
\* 0x62, and the rc of a phase is decided by its own exchange alone.
C16_NoAckCarriedOver ==
    \A t \in Threads :
        /\ pc[t] = "spi_sync" => rd_hdr_buf[t] = ZeroHeader
        /\ (pc[t] = "xfer_exit" /\ Exchanges(t) = phase[t]) =>
              LET e == log[t][phase[t]] IN
              /\ ~e.delivered => (rc[t] = 1 /\ e.sync = 0)
              /\ rc[t] = (IF e.delivered /\ e.sync = CY_SPI_SYNC_ACK THEN 0 ELSE 1)

\* C16 witness: the address phase of a read returned 0x62, the data phase
\* failed in the transport without a response header, and its rc is 1
C16_Witness ==
    \E t \in Threads :
        /\ pc[t] = "xfer_exit" /\ phase[t] = 2 /\ Exchanges(t) = 2
        /\ log[t][1].delivered /\ log[t][1].sync = CY_SPI_SYNC_ACK
        /\ ~log[t][2].delivered /\ log[t][2].sync_rc < 0
        /\ rc[t] = 1

\* C17: the usage count is balanced around every call: it is raised before
\* the lock is taken and dropped after the lock is released on every path,
\* so it counts the calls in progress, is at least 1 during every exchange
\* and is back at its initial value 0 when all calls have completed.
C17_UsageCountBalanced ==
    /\ usage_count = Cardinality({t \in Threads : InCall(t)})
    /\ \A t \in Threads : lock = t => (InCall(t) /\ usage_count >= 1)
    /\ InFlight # {} => usage_count >= 1
    /\ (\A t \in Threads : ~InCall(t)) => usage_count = 0

\* C17 witness: every thread has completed a call, one of them on the
\* invalid-argument path and one on the ack-mismatch path, and the count
\* is back at 0
C17_Witness ==
    /\ \A t \in Threads : Done(t)
    /\ \E t \in Threads : ret[t] = -EINVAL
    /\ \E t \in Threads : ret[t] = -EIO
    /\ usage_count = 0

====
